---- MODULE Spec2Model ----
(***************************************************************************)
(* Text Toolkit API (src/main.py): the POST /analyze handler, its three    *)
(* sequential calls to the local inference server, and the parsing of the  *)
(* three raw answers (summary, keywords, sentiment).                       *)
(*                                                                         *)
(* A Python str is modelled as a sequence of one-character strings, so     *)
(* that strip, split, lower, substring search and json.loads are computed  *)
(* character by character as the library computes them.                    *)
(***************************************************************************)
EXTENDS Integers, Sequences, FiniteSets, TLC

VARIABLES
    pc,         \* per request: where the analyze coroutine is suspended
    req,        \* per request: the AnalyzeRequest body it was called with
    summary,    \* per request: local `summary` of analyze
    keywords,   \* per request: local `keywords` of analyze
    sentiment,  \* per request: local `sentiment` of analyze
    response,   \* per request: what the client receives (status, detail, body)
    calls,      \* per request: history of the prompts it posted, in order
    got,        \* per request: history of the replies its continuation consumed
    pending,    \* the outbound POSTs in flight (one AsyncClient each)
    raw,        \* input of the pure-function specifications
    out         \* result of the pure-function specifications

vars == <<pc, req, summary, keywords, sentiment, response, calls, got, pending, raw, out>>

handlerVars == <<pc, req, summary, keywords, sentiment, response, calls, got, pending>>

pureVars == <<raw, out>>

(***************************************************************************)
(* Bounds of the model.                                                    *)
(***************************************************************************)
NumRequests == 2

MaxLen == 5

MaxChunks == 4

Reqs == 1..NumRequests

(***************************************************************************)
(* Python str helpers.                                                     *)
(***************************************************************************)
\* str.strip() / str.isspace(): the whitespace characters a model string can hold
Whitespace == {" ", "\t", "\n", "\r", "\f"}

RECURSIVE lstrip(_)
lstrip(s) ==
    IF s # <<>> /\ Head(s) \in Whitespace THEN lstrip(Tail(s)) ELSE s

RECURSIVE rstrip(_)
rstrip(s) ==
    IF s # <<>> /\ s[Len(s)] \in Whitespace THEN rstrip(SubSeq(s, 1, Len(s) - 1)) ELSE s

strip(s) == rstrip(lstrip(s))

\* str.split(","): the pieces between commas, empty pieces included
RECURSIVE split_from(_, _, _)
split_from(s, i, piece) ==
    IF i > Len(s) THEN <<piece>>
    ELSE IF s[i] = "," THEN <<piece>> \o split_from(s, i + 1, <<>>)
    ELSE split_from(s, i + 1, Append(piece, s[i]))

split(s) == split_from(s, 1, <<>>)

UpperLetters ==
    <<"A","B","C","D","E","F","G","H","I","J","K","L","M",
      "N","O","P","Q","R","S","T","U","V","W","X","Y","Z">>

LowerLetters ==
    <<"a","b","c","d","e","f","g","h","i","j","k","l","m",
      "n","o","p","q","r","s","t","u","v","w","x","y","z">>

lower_char(c) ==
    IF \E i \in 1..26 : UpperLetters[i] = c
    THEN LowerLetters[CHOOSE i \in 1..26 : UpperLetters[i] = c]
    ELSE c

\* str.lower()
lower(s) == [i \in 1..Len(s) |-> lower_char(s[i])]

\* `needle in s`
contains(s, needle) ==
    \E i \in 1..(Len(s) - Len(needle) + 1) :
        SubSeq(s, i, i + Len(needle) - 1) = needle

(***************************************************************************)
(* Python values and their string form, str(k) and repr(k), for the JSON   *)
(* values json.loads can return here: str, int, None/True/False and list.  *)
(* A value is a record of one shape: t is its type, and s, n, e hold the   *)
(* characters of a str (or the name of a literal), the number of an int    *)
(* and the elements of a list.                                             *)
(***************************************************************************)
PyStr(chars) == [t |-> "str", s |-> chars, n |-> 0, e |-> <<>>]

PyInt(k) == [t |-> "int", s |-> <<>>, n |-> k, e |-> <<>>]

PyLit(name) == [t |-> "lit", s |-> name, n |-> 0, e |-> <<>>]

PyList(elems) == [t |-> "list", s |-> <<>>, n |-> 0, e |-> elems]

Digits == <<"0","1","2","3","4","5","6","7","8","9">>

IsDigit(c) == \E d \in 1..10 : Digits[d] = c

digit_value(c) == (CHOOSE d \in 1..10 : Digits[d] = c) - 1

\* str(int): decimal digits, a leading minus sign for a negative number
RECURSIVE nat_str(_)
nat_str(k) ==
    IF k < 10 THEN <<Digits[k + 1]>> ELSE nat_str(k \div 10) \o <<Digits[(k % 10) + 1]>>

int_str(k) == IF k < 0 THEN <<"-">> \o nat_str(0 - k) ELSE nat_str(k)

\* repr(str): single quotes, double quotes when the text has a ' and no "
str_repr(chars) ==
    LET hasSingle == \E i \in 1..Len(chars) : chars[i] = "'"
        hasDouble == \E i \in 1..Len(chars) : chars[i] = "\""
        q == IF hasSingle /\ ~hasDouble THEN "\"" ELSE "'"
    IN <<q>> \o chars \o <<q>>

RECURSIVE py_repr(_)
RECURSIVE join_reprs(_, _)
\* ", ".join(repr(x) for x in elems), from element i on
join_reprs(elems, i) ==
    IF i > Len(elems) THEN <<>>
    ELSE IF i = Len(elems) THEN py_repr(elems[i])
    ELSE py_repr(elems[i]) \o <<",", " ">> \o join_reprs(elems, i + 1)

py_repr(v) ==
    CASE v.t = "str" -> str_repr(v.s)
      [] v.t = "int" -> int_str(v.n)
      [] v.t = "lit" -> v.s
      [] OTHER -> <<"[">> \o join_reprs(v.e, 1) \o <<"]">>

\* str(k): a str is itself, every other value is its repr
py_str(v) == IF v.t = "str" THEN v.s ELSE py_repr(v)

(***************************************************************************)
(* json.loads (the json module's decoder), on the JSON texts made of       *)
(* strings without escapes, integers, null/true/false and arrays (objects, *)
(* fractions, exponents and backslash escapes occur in no input here).  A  *)
(* result is [ok, v, end]: ok is FALSE where the decoder raises, end is    *)
(* the index after the value.                                              *)
(***************************************************************************)
JsonWhitespace == {" ", "\t", "\n", "\r"}

\* characters below 0x20, which the strict decoder refuses inside a string
ControlChars == {"\t", "\n", "\r", "\f"}

JsonFail == [ok |-> FALSE, v |-> PyLit(<<>>), end |-> 0]

JsonOk(v, end) == [ok |-> TRUE, v |-> v, end |-> end]

RECURSIVE skip_ws(_, _)
skip_ws(s, i) ==
    IF i <= Len(s) /\ s[i] \in JsonWhitespace THEN skip_ws(s, i + 1) ELSE i

\* scanstring: i is the index after the opening quote
RECURSIVE scan_string(_, _, _)
scan_string(s, i, acc) ==
    IF i > Len(s) THEN JsonFail
    ELSE IF s[i] = "\"" THEN JsonOk(PyStr(acc), i + 1)
    ELSE IF s[i] \in ControlChars THEN JsonFail
    ELSE scan_string(s, i + 1, Append(acc, s[i]))

\* the digits of [1-9]\d* from index i on: the value read so far and the end
RECURSIVE scan_digits(_, _, _)
scan_digits(s, i, k) ==
    IF i <= Len(s) /\ IsDigit(s[i]) THEN scan_digits(s, i + 1, 10 * k + digit_value(s[i]))
    ELSE [n |-> k, end |-> i]

\* NUMBER_RE, integer part: -?(0|[1-9]\d*)
scan_number(s, i) ==
    LET neg == i <= Len(s) /\ s[i] = "-"
        j == IF neg THEN i + 1 ELSE i
    IN IF j > Len(s) \/ ~IsDigit(s[j]) THEN JsonFail
       ELSE IF s[j] = "0" THEN JsonOk(PyInt(0), j + 1)
       ELSE LET d == scan_digits(s, j, 0)
            IN JsonOk(PyInt(IF neg THEN 0 - d.n ELSE d.n), d.end)

starts_with(s, i, word) ==
    i + Len(word) - 1 <= Len(s) /\ SubSeq(s, i, i + Len(word) - 1) = word

RECURSIVE scan_once(_, _)
RECURSIVE JSONArray(_, _, _)
scan_once(s, i) ==
    IF i > Len(s) THEN JsonFail
    ELSE IF s[i] = "\"" THEN scan_string(s, i + 1, <<>>)
    ELSE IF s[i] = "[" THEN
        LET j == skip_ws(s, i + 1)
        IN IF j <= Len(s) /\ s[j] = "]" THEN JsonOk(PyList(<<>>), j + 1)
           ELSE JSONArray(s, j, <<>>)
    ELSE IF starts_with(s, i, <<"n","u","l","l">>) THEN JsonOk(PyLit(<<"N","o","n","e">>), i + 4)
    ELSE IF starts_with(s, i, <<"t","r","u","e">>) THEN JsonOk(PyLit(<<"T","r","u","e">>), i + 4)
    ELSE IF starts_with(s, i, <<"f","a","l","s","e">>)
        THEN JsonOk(PyLit(<<"F","a","l","s","e">>), i + 5)
    ELSE scan_number(s, i)

\* JSONArray's loop: i is the index of the next element, values those read so far
JSONArray(s, i, values) ==
    LET r == scan_once(s, i)
    IN IF ~r.ok THEN JsonFail
       ELSE LET j == skip_ws(s, r.end)
            IN IF j > Len(s) THEN JsonFail
               ELSE IF s[j] = "]" THEN JsonOk(PyList(Append(values, r.v)), j + 1)
               ELSE IF s[j] = "," THEN JSONArray(s, skip_ws(s, j + 1), Append(values, r.v))
               ELSE JsonFail

\* JSONDecoder.decode: one value, whitespace around it, nothing after it
json_loads(s) ==
    LET r == scan_once(s, skip_ws(s, 1))
    IN IF r.ok /\ skip_ws(s, r.end) = Len(s) + 1 THEN r ELSE JsonFail

(***************************************************************************)
(* The request and response bodies, and the replies of the inference       *)
(* server.                                                                 *)
(***************************************************************************)
DefaultMaxSummaryWords == 80

AnalyzeRequest(text, max_summary_words) ==
    [text |-> text, max_summary_words |-> max_summary_words]

NoRequest == AnalyzeRequest(<<>>, DefaultMaxSummaryWords)

\* what the client receives: a 200 carries one body, an error carries none
AnalyzeResponse(sum, kws, sent) ==
    [status |-> 200, detail |-> "",
     body |-> <<[summary |-> sum, keywords |-> kws, sentiment |-> sent]>>]

HTTPException(status_code, detail) ==
    [status |-> status_code, detail |-> detail, body |-> <<>>]

\* an exception that is no HTTPException leaves the handler: the framework's
\* server-error middleware answers 500
InternalServerError == HTTPException(500, "Internal Server Error")

NoResponse == [status |-> 0, detail |-> "", body |-> <<>>]

\* client.post raised (connection refused, timeout): there is no response
Unreachable == [raised |-> TRUE, status_code |-> 0, has_response |-> FALSE, text |-> <<>>]

\* the server answered with a status other than 200
ErrorStatus == [raised |-> FALSE, status_code |-> 404, has_response |-> FALSE, text |-> <<>>]

\* 200 with a JSON object that has no "response" key.  (Every 200 reply of the
\* model carries a JSON object whose "response", when present, is a string: a
\* body resp.json() cannot decode would raise like Unreachable does.)
OkNoField == [raised |-> FALSE, status_code |-> 200, has_response |-> FALSE, text |-> <<>>]

\* 200 with {"response": text}
OkText(text) == [raised |-> FALSE, status_code |-> 200, has_response |-> TRUE, text |-> text]

(***************************************************************************)
(* Variants of call_ollama with one slip each, used to show that the       *)
(* properties below depend on it.                                          *)
(***************************************************************************)
\* the status check is missing: any reply that arrived is read as a body
call_ollama_ignores_status(reply) ==
    IF reply.raised
        THEN [exc |-> TRUE, error |-> InternalServerError, text |-> <<>>]
    ELSE [exc |-> FALSE, error |-> NoResponse,
          text |-> strip(IF reply.has_response THEN reply.text ELSE <<>>)]

\* the upstream status is passed on instead of 500
call_ollama_passes_status(reply) ==
    IF reply.raised
        THEN [exc |-> TRUE, error |-> InternalServerError, text |-> <<>>]
    ELSE IF reply.status_code # 200
        THEN [exc |-> TRUE, error |-> HTTPException(reply.status_code, "Ollama error"),
              text |-> <<>>]
    ELSE [exc |-> FALSE, error |-> NoResponse,
          text |-> strip(IF reply.has_response THEN reply.text ELSE <<>>)]

\* data["response"] instead of data.get("response", ""): a KeyError leaves the handler
call_ollama_requires_field(reply) ==
    IF reply.raised
        THEN [exc |-> TRUE, error |-> InternalServerError, text |-> <<>>]
    ELSE IF reply.status_code # 200
        THEN [exc |-> TRUE, error |-> HTTPException(500, "Ollama error"), text |-> <<>>]
    ELSE IF ~reply.has_response
        THEN [exc |-> TRUE, error |-> InternalServerError, text |-> <<>>]
    ELSE [exc |-> FALSE, error |-> NoResponse, text |-> strip(reply.text)]

(***************************************************************************)
(* call_ollama after its await: what the caller gets for a reply.          *)
(* exc is FALSE where it returns text, TRUE where it raises error.         *)
(***************************************************************************)
call_ollama(reply) ==
    IF reply.raised
        THEN [exc |-> TRUE, error |-> InternalServerError, text |-> <<>>]
    ELSE IF reply.status_code # 200
        THEN [exc |-> TRUE, error |-> HTTPException(500, "Ollama error"), text |-> <<>>]
    ELSE [exc |-> FALSE, error |-> NoResponse,
          text |-> strip(IF reply.has_response THEN reply.text ELSE <<>>)]

(***************************************************************************)
(* The prompts.  words holds the number formatted into the summary prompt  *)
(* and is empty for the other two; text is the request's text.             *)
(***************************************************************************)
\* a variant that clamps the word cap to at least 1
summary_prompt_clamped(text, max_summary_words) ==
    [kind |-> "summary",
     words |-> <<IF max_summary_words < 1 THEN 1 ELSE max_summary_words>>,
     text |-> text]

summary_prompt(text, max_summary_words) ==
    [kind |-> "summary", words |-> <<max_summary_words>>, text |-> text]

\* a variant that sends the sentiment instruction in second place
keywords_prompt_swapped(text) == [kind |-> "sentiment", words |-> <<>>, text |-> text]

keywords_prompt(text) == [kind |-> "keywords", words |-> <<>>, text |-> text]

sentiment_prompt(text) == [kind |-> "sentiment", words |-> <<>>, text |-> text]

\* a variant without the strip: `not req.text`
is_blank_no_strip(text) == text = <<>>

\* `not req.text.strip()`
is_blank(text) == strip(text) = <<>>

(***************************************************************************)
(* Keyword parsing: json.loads, the isinstance check and str(k), with the  *)
(* comma split in the except branch.  exc is TRUE where an exception       *)
(* would leave the try statement.                                          *)
(***************************************************************************)
RECURSIVE select_nonblank(_)
\* [k.strip() for k in pieces if k.strip()]
select_nonblank(pieces) ==
    IF pieces = <<>> THEN <<>>
    ELSE IF strip(Head(pieces)) # <<>>
        THEN <<strip(Head(pieces))>> \o select_nonblank(Tail(pieces))
    ELSE select_nonblank(Tail(pieces))

comma_split(keywords_raw) == select_nonblank(split(keywords_raw))

\* a variant that applies the fallback's strip-and-filter to the array's elements too
parse_keywords_filtered(keywords_raw) ==
    LET r == json_loads(keywords_raw)
    IN IF r.ok /\ r.v.t = "list"
       THEN [exc |-> FALSE,
             keywords |-> select_nonblank([i \in 1..Len(r.v.e) |-> py_str(r.v.e[i])])]
       ELSE [exc |-> FALSE, keywords |-> comma_split(keywords_raw)]

\* a variant whose fallback keeps the pieces as split gives them
parse_keywords_plain_split(keywords_raw) ==
    LET r == json_loads(keywords_raw)
    IN IF r.ok /\ r.v.t = "list"
       THEN [exc |-> FALSE, keywords |-> [i \in 1..Len(r.v.e) |-> py_str(r.v.e[i])]]
       ELSE [exc |-> FALSE, keywords |-> split(keywords_raw)]

parse_keywords(keywords_raw) ==
    LET r == json_loads(keywords_raw)
    IN IF r.ok /\ r.v.t = "list"
       THEN [exc |-> FALSE, keywords |-> [i \in 1..Len(r.v.e) |-> py_str(r.v.e[i])]]
       ELSE [exc |-> FALSE, keywords |-> comma_split(keywords_raw)]

(***************************************************************************)
(* Sentiment normalisation.                                                *)
(***************************************************************************)
Positive == <<"p","o","s","i","t","i","v","e">>

Negative == <<"n","e","g","a","t","i","v","e">>

\* a variant that tests "negative" first
normalize_sentiment_negative_first(sentiment_raw) ==
    LET low == lower(sentiment_raw)
    IN IF contains(low, Negative) THEN "negative"
       ELSE IF contains(low, Positive) THEN "positive"
       ELSE "neutral"

normalize_sentiment(sentiment_raw) ==
    LET low == lower(sentiment_raw)
    IN IF contains(low, Positive) THEN "positive"
       ELSE IF contains(low, Negative) THEN "negative"
       ELSE "neutral"

(***************************************************************************)
(* Inputs of the model: the request bodies clients send and the replies    *)
(* the inference server gives to a prompt.                                 *)
(***************************************************************************)
Texts == { <<>>, <<" ", "\n">>, <<" ", "a", " ">> }

Words == { DefaultMaxSummaryWords, 0 }

Bodies == { AnalyzeRequest(t, w) : t \in Texts, w \in Words }

ReplyText(kind) ==
    CASE kind = "summary" -> <<" ", "O", "k", ".", "\n">>
      [] kind = "keywords" -> <<"[", "\"", "a", "\"", ",", " ", "1", ",", "\"", "a", "\"", "]">>
      [] OTHER -> <<"P", "o", "s", "i", "t", "i", "v", "e", ".">>

Replies(prompt) == { Unreachable, ErrorStatus, OkNoField, OkText(ReplyText(prompt.kind)) }

(***************************************************************************)
(* The handler.  analyze is a coroutine: it runs from one await to the     *)
(* next without interruption, so each action is one such run.  Every       *)
(* call_ollama opens an AsyncClient of its own; a call in flight is the    *)
(* record [req, prompt], and its reply resumes the coroutine awaiting it.  *)
(***************************************************************************)
Call(r, prompt) == [req |-> r, prompt |-> prompt]

\* a variant with one client shared by all requests, whose replies go to the
\* next request's coroutine
DeliverTo_shared(c) == (c.req % NumRequests) + 1

\* the coroutine a reply to call c resumes
DeliverTo(c) == c.req

Init ==
    /\ pc = [r \in Reqs |-> "idle"]
    /\ req = [r \in Reqs |-> NoRequest]
    /\ summary = [r \in Reqs |-> <<>>]
    /\ keywords = [r \in Reqs |-> <<>>]
    /\ sentiment = [r \in Reqs |-> ""]
    /\ response = [r \in Reqs |-> NoResponse]
    /\ calls = [r \in Reqs |-> <<>>]
    /\ got = [r \in Reqs |-> <<>>]
    /\ pending = {}
    /\ raw = <<>>
    /\ out = <<>>

\* client.post: the prompt leaves, the coroutine of r is suspended at `at`
Post(r, prompt, at) ==
    /\ calls' = [calls EXCEPT ![r] = Append(@, prompt)]
    /\ pc' = [pc EXCEPT ![r] = at]

\* the handler of r ends and the client receives resp
Finish(r, resp) ==
    /\ response' = [response EXCEPT ![r] = resp]
    /\ pc' = [pc EXCEPT ![r] = "done"]

\* POST /analyze arrives with `body`: analyze runs to its first await
Analyze(r, body) ==
    /\ pc[r] = "idle"
    /\ req' = [req EXCEPT ![r] = body]
    /\ IF is_blank(body.text)
       THEN /\ Finish(r, HTTPException(400, "Text is empty"))
            /\ UNCHANGED <<calls, pending>>
       ELSE /\ Post(r, summary_prompt(body.text, body.max_summary_words), "summary")
            /\ pending' = pending \cup
                   {Call(r, summary_prompt(body.text, body.max_summary_words))}
            /\ UNCHANGED response
    /\ UNCHANGED <<summary, keywords, sentiment, got, pureVars>>

\* the reply to the summary call arrives: analyze runs to its second await
ResumeSummary(c, reply) ==
    LET r == DeliverTo(c)
        res == call_ollama(reply)
    IN /\ c \in pending
       /\ pc[r] = "summary"
       /\ got' = [got EXCEPT ![r] = Append(@, [call |-> c, reply |-> reply])]
       /\ IF res.exc
          THEN /\ Finish(r, res.error)
               /\ pending' = pending \ {c}
               /\ UNCHANGED <<summary, calls>>
          ELSE /\ summary' = [summary EXCEPT ![r] = res.text]
               /\ Post(r, keywords_prompt(req[r].text), "keywords")
               /\ pending' = (pending \ {c}) \cup {Call(r, keywords_prompt(req[r].text))}
               /\ UNCHANGED response
       /\ UNCHANGED <<req, keywords, sentiment, pureVars>>

\* the reply to the keywords call arrives: analyze runs to its third await
ResumeKeywords(c, reply) ==
    LET r == DeliverTo(c)
        res == call_ollama(reply)
        parsed == parse_keywords(res.text)
    IN /\ c \in pending
       /\ pc[r] = "keywords"
       /\ got' = [got EXCEPT ![r] = Append(@, [call |-> c, reply |-> reply])]
       /\ IF res.exc \/ parsed.exc
          THEN /\ Finish(r, IF res.exc THEN res.error ELSE InternalServerError)
               /\ pending' = pending \ {c}
               /\ UNCHANGED <<keywords, calls>>
          ELSE /\ keywords' = [keywords EXCEPT ![r] = parsed.keywords]
               /\ Post(r, sentiment_prompt(req[r].text), "sentiment")
               /\ pending' = (pending \ {c}) \cup {Call(r, sentiment_prompt(req[r].text))}
               /\ UNCHANGED response
       /\ UNCHANGED <<req, summary, sentiment, pureVars>>

\* the reply to the sentiment call arrives: analyze runs to its return
ResumeSentiment(c, reply) ==
    LET r == DeliverTo(c)
        res == call_ollama(reply)
    IN /\ c \in pending
       /\ pc[r] = "sentiment"
       /\ got' = [got EXCEPT ![r] = Append(@, [call |-> c, reply |-> reply])]
       /\ pending' = pending \ {c}
       /\ IF res.exc
          THEN /\ Finish(r, res.error)
               /\ UNCHANGED sentiment
          ELSE /\ sentiment' = [sentiment EXCEPT ![r] = normalize_sentiment(res.text)]
               /\ Finish(r, AnalyzeResponse(summary[r], keywords[r],
                                            normalize_sentiment(res.text)))
       /\ UNCHANGED <<req, summary, keywords, calls, pureVars>>

Next ==
    \/ \E r \in Reqs, body \in Bodies : Analyze(r, body)
    \/ \E c \in pending : \E reply \in Replies(c.prompt) : ResumeSummary(c, reply)
    \/ \E c \in pending : \E reply \in Replies(c.prompt) : ResumeKeywords(c, reply)
    \/ \E c \in pending : \E reply \in Replies(c.prompt) : ResumeSentiment(c, reply)

Spec == Init /\ [][Next]_vars

(***************************************************************************)
(* The two parsing functions on their own, over every raw answer up to a   *)
(* bound: the answer is the "response" text of a 200 reply, and the step   *)
(* is what analyze does with it (call_ollama's strip included).            *)
(***************************************************************************)
HandlerIdle ==
    /\ pc = [r \in Reqs |-> "idle"]
    /\ req = [r \in Reqs |-> NoRequest]
    /\ summary = [r \in Reqs |-> <<>>]
    /\ keywords = [r \in Reqs |-> <<>>]
    /\ sentiment = [r \in Reqs |-> ""]
    /\ response = [r \in Reqs |-> NoResponse]
    /\ calls = [r \in Reqs |-> <<>>]
    /\ got = [r \in Reqs |-> <<>>]
    /\ pending = {}

KeywordAlphabet == {"[", "]", ",", " ", "\"", "0", "1"}

StringsUpTo(alphabet, n) == UNION {[1..k -> alphabet] : k \in 0..n}

InitKeywords ==
    /\ HandlerIdle
    /\ raw \in StringsUpTo(KeywordAlphabet, MaxLen)
    /\ out = <<>>

KeywordsStep ==
    /\ out = <<>>
    /\ out' = <<parse_keywords(call_ollama(OkText(raw)).text)>>
    /\ UNCHANGED <<raw, handlerVars>>

NextKeywords == KeywordsStep

SpecKeywords == InitKeywords /\ [][NextKeywords]_vars

SentimentChunks ==
    { <<"p","o","s","i">>, <<"t","i","v","e">>, <<"n","e","g","a">>,
      <<"P","O","S","I">>, <<"T","i","V","E">>, <<" ">> }

RECURSIVE ChunksUpTo(_)
ChunksUpTo(n) ==
    IF n = 0 THEN {<<>>}
    ELSE ChunksUpTo(n - 1) \cup {c \o s : c \in SentimentChunks, s \in ChunksUpTo(n - 1)}

InitSentiment ==
    /\ HandlerIdle
    /\ raw \in ChunksUpTo(MaxChunks)
    /\ out = <<>>

SentimentStep ==
    /\ out = <<>>
    /\ out' = <<normalize_sentiment(call_ollama(OkText(raw)).text)>>
    /\ UNCHANGED <<raw, handlerVars>>

NextSentiment == SentimentStep

SpecSentiment == InitSentiment /\ [][NextSentiment]_vars

(***************************************************************************)
(* Properties of the handler (specification Spec).                         *)
(***************************************************************************)
Started(r) == pc[r] # "idle"

\* empty, or every character a whitespace character
AllWhitespace(text) == \A i \in 1..Len(text) : text[i] \in Whitespace

\* the call this reply answers failed: the POST raised, or the status is not 200
Failed(reply) == reply.raised \/ reply.status_code # 200

InFlight(r) == {c \in pending : c.req = r}

PromptOrder == <<"summary", "keywords", "sentiment">>

\* C1: a request whose text is empty or all whitespace is rejected with status
\* 400 and has issued no inference call.
C1_BlankRejectedWithoutCalls ==
    \A r \in Reqs :
        (Started(r) /\ AllWhitespace(req[r].text)) =>
            /\ pc[r] = "done"
            /\ response[r].status = 400
            /\ response[r].body = <<>>
            /\ calls[r] = <<>>
            /\ InFlight(r) = {}

C1_Witness ==
    \E r \in Reqs :
        /\ pc[r] = "done"
        /\ req[r].text = <<" ", "\n">>
        /\ response[r].status = 400
        /\ calls[r] = <<>>

\* C2: the calls of a request are issued in the order summary, keywords,
\* sentiment, one at a time (a call is posted only when every earlier call has
\* been answered), a 200 is produced only after the third answer, and a
\* non-blank request none of whose calls failed ends with 200 after exactly
\* three calls.
C2_ThreeSequentialCalls ==
    \A r \in Reqs :
        /\ Len(calls[r]) <= 3
        /\ \A i \in 1..Len(calls[r]) : calls[r][i].kind = PromptOrder[i]
        /\ Len(calls[r]) - Len(got[r]) \in {0, 1}
        /\ Cardinality(InFlight(r)) = Len(calls[r]) - Len(got[r])
        /\ response[r].status = 200 => (Len(calls[r]) = 3 /\ Len(got[r]) = 3)
        /\ (/\ pc[r] = "done"
            /\ ~AllWhitespace(req[r].text)
            /\ \A k \in 1..Len(got[r]) : ~Failed(got[r][k].reply))
           => (response[r].status = 200 /\ Len(calls[r]) = 3 /\ Len(got[r]) = 3)

C2_Witness ==
    \E r \in Reqs :
        /\ response[r].status = 200
        /\ Len(calls[r]) = 3
        /\ \A k \in 1..3 : ~Failed(got[r][k].reply)

\* C3: when the k-th call of a request fails, the request ends without a body
\* (no summary, keywords or sentiment), no call after the k-th is issued, and no
\* prompt is sent twice.
C3_NoPartialNoRetry ==
    \A r \in Reqs :
        /\ \A k \in 1..Len(got[r]) :
              Failed(got[r][k].reply) =>
                  /\ k = Len(got[r])
                  /\ Len(calls[r]) = k
                  /\ pc[r] = "done"
                  /\ response[r].status # 200
                  /\ response[r].body = <<>>
                  /\ InFlight(r) = {}
        /\ \A i, j \in 1..Len(calls[r]) : i # j => calls[r][i] # calls[r][j]

C3_Witness ==
    \E r \in Reqs :
        /\ Len(got[r]) = 2
        /\ ~Failed(got[r][1].reply)
        /\ Failed(got[r][2].reply)
        /\ pc[r] = "done"

\* C4: a request one of whose calls failed ends with status 500, whether the
\* POST raised or the server answered with a status other than 200.
C4_FailureIs500 ==
    \A r \in Reqs :
        \A k \in 1..Len(got[r]) :
            Failed(got[r][k].reply) => (pc[r] = "done" /\ response[r].status = 500)

C4_Witness ==
    \E r1, r2 \in Reqs :
        /\ got[r1] # <<>> /\ got[r1][Len(got[r1])].reply = Unreachable
        /\ got[r2] # <<>> /\ got[r2][Len(got[r2])].reply = ErrorStatus
        /\ response[r1].status = 500
        /\ response[r2].status = 500

\* the text a reply carries: its "response" field, the empty string without one
FieldText(reply) == IF reply.has_response THEN reply.text ELSE <<>>

\* the response a request must end with, from its own body and the replies to
\* its own calls alone
Outcome(body, replies) ==
    IF AllWhitespace(body.text) THEN HTTPException(400, "Text is empty")
    ELSE IF \E k \in 1..Len(replies) : Failed(replies[k])
        THEN LET k == CHOOSE k \in 1..Len(replies) : Failed(replies[k])
             IN IF replies[k].raised THEN InternalServerError
                ELSE HTTPException(500, "Ollama error")
    ELSE AnalyzeResponse(strip(FieldText(replies[1])),
                         parse_keywords(strip(FieldText(replies[2]))).keywords,
                         normalize_sentiment(strip(FieldText(replies[3]))))

\* C8: requests in flight together do not affect one another: every reply a
\* request consumed answers a call of its own, every prompt it sent is built
\* from its own text and max_summary_words, and the response it ends with is the
\* one its own body and the replies to its own calls give.
C8_RequestsIndependent ==
    \A r \in Reqs :
        /\ \A i \in 1..Len(got[r]) : got[r][i].call = Call(r, calls[r][i])
        /\ \A c \in InFlight(r) : c.prompt = calls[r][Len(calls[r])]
        /\ \A i \in 1..Len(calls[r]) :
              /\ calls[r][i].text = req[r].text
              /\ calls[r][i].words \in {<<>>, <<req[r].max_summary_words>>}
        /\ pc[r] = "done" =>
              response[r] = Outcome(req[r], [i \in 1..Len(got[r]) |-> got[r][i].reply])

C8_Witness ==
    \E r1, r2 \in Reqs :
        /\ r1 # r2
        /\ pc[r1] = "sentiment"
        /\ pc[r2] = "keywords"
        /\ req[r1].max_summary_words # req[r2].max_summary_words
        /\ got[r1][1].reply = OkNoField
        /\ got[r2][1].reply # OkNoField

\* C9 as stated: the word cap written into a summary prompt is at least 1, and a
\* request whose max_summary_words is zero or negative issues no inference call.
C9_CapAlwaysPositive ==
    \A r \in Reqs :
        /\ calls[r] # <<>> => calls[r][1].words[1] >= 1
        /\ (Started(r) /\ req[r].max_summary_words <= 0) => calls[r] = <<>>

\* C9 amended: max_summary_words is an integer that is not checked for sign: a
\* started request issues the summary call exactly when its text is not blank,
\* whatever its max_summary_words, and the word cap written into the summary
\* prompt is the request's max_summary_words unchanged.
C9_CapIsRequestValue ==
    \A r \in Reqs :
        Started(r) =>
            /\ calls[r] # <<>> <=> ~AllWhitespace(req[r].text)
            /\ calls[r] # <<>> =>
                  /\ calls[r][1].kind = "summary"
                  /\ calls[r][1].words = <<req[r].max_summary_words>>

C9_Witness ==
    \E r \in Reqs :
        /\ req[r].max_summary_words <= 0
        /\ ~AllWhitespace(req[r].text)
        /\ calls[r] # <<>>
        /\ calls[r][1].words = <<req[r].max_summary_words>>

\* t is s without its leading and trailing whitespace
IsStripOf(t, s) ==
    /\ t # <<>> => (t[1] \notin Whitespace /\ t[Len(t)] \notin Whitespace)
    /\ \E i \in 0..Len(s) :
          /\ i + Len(t) <= Len(s)
          /\ \A k \in 1..Len(t) : s[i + k] = t[k]
          /\ \A k \in 1..i : s[k] \in Whitespace
          /\ \A k \in (i + Len(t) + 1)..Len(s) : s[k] \in Whitespace

\* C10: a 200 reply without a "response" field is not a failure: the request
\* goes on to its next call (or to its 200 after the third); with three such
\* replies the response is 200 with an empty summary, no keywords and sentiment
\* neutral; and the summary of every 200 response is the first reply's text
\* without its leading and trailing whitespace.
C10_MissingFieldIsEmptyText ==
    \A r \in Reqs :
        /\ \A k \in 1..Len(got[r]) :
              got[r][k].reply = OkNoField =>
                  IF k = 3 THEN pc[r] = "done" /\ response[r].status = 200
                  ELSE Len(calls[r]) > k
        /\ (pc[r] = "done" /\ Len(got[r]) = 3
                /\ \A k \in 1..3 : got[r][k].reply = OkNoField)
              => response[r] = AnalyzeResponse(<<>>, <<>>, "neutral")
        /\ response[r].status = 200 =>
              IsStripOf(response[r].body[1].summary, FieldText(got[r][1].reply))

C10_Witness ==
    \E r1, r2 \in Reqs :
        /\ response[r1] = AnalyzeResponse(<<>>, <<>>, "neutral")
        /\ \A k \in 1..3 : got[r1][k].reply = OkNoField
        /\ response[r2].status = 200
        /\ got[r2][1].reply.text = <<" ", "O", "k", ".", "\n">>
        /\ response[r2].body[1].summary = <<"O", "k", ".">>

(***************************************************************************)
(* Properties of keyword parsing (specification SpecKeywords).             *)
(***************************************************************************)
\* the raw keywords answer as analyze sees it
KeywordsRaw == strip(raw)

IsJsonArray(text) == json_loads(text).ok /\ json_loads(text).v.t = "list"

\* C5: when the raw keywords answer parses as a JSON array, the keywords are
\* the array's elements in their string form: as many as the array has, in its
\* order, none dropped, merged or trimmed.
C5_JsonArrayKept ==
    (out # <<>> /\ IsJsonArray(KeywordsRaw)) =>
        LET elems == json_loads(KeywordsRaw).v.e
        IN /\ ~out[1].exc
           /\ Len(out[1].keywords) = Len(elems)
           /\ \A i \in 1..Len(elems) : out[1].keywords[i] = py_str(elems[i])

C5_Witness ==
    \/ /\ raw = <<"[", "1", ",", "1", "]">>
       /\ out = <<[exc |-> FALSE, keywords |-> << <<"1">>, <<"1">> >>]>>
    \/ /\ raw = <<"[", "\"", " ", "\"", "]">>
       /\ out = <<[exc |-> FALSE, keywords |-> << <<" ">> >>]>>

\* text without its commas and whitespace
RECURSIVE Squash(_)
Squash(text) ==
    IF text = <<>> THEN <<>>
    ELSE IF Head(text) \in Whitespace \cup {","} THEN Squash(Tail(text))
    ELSE <<Head(text)>> \o Squash(Tail(text))

RECURSIVE Concat(_)
Concat(pieces) == IF pieces = <<>> THEN <<>> ELSE Head(pieces) \o Concat(Tail(pieces))

\* the number of comma-separated pieces of text that are not blank
NonBlankPieces(text) ==
    LET commas == {0, Len(text) + 1} \cup {i \in 1..Len(text) : text[i] = ","}
    IN Cardinality({i \in commas :
           /\ i <= Len(text)
           /\ LET j == CHOOSE j \in commas : j > i /\ \A k \in commas : k > i => j <= k
              IN \E k \in (i + 1)..(j - 1) : text[k] \notin Whitespace})

\* C6: when the raw keywords answer is not a JSON array (not JSON at all, or a
\* JSON value of another type), the keywords are its comma-separated pieces,
\* trimmed, the blank ones left out, in their order: every keyword is non-empty,
\* has no comma and no surrounding whitespace; and no exception leaves the
\* parsing.
C6_FallbackCommaSplit ==
    (out # <<>> /\ ~IsJsonArray(KeywordsRaw)) =>
        /\ ~out[1].exc
        /\ \A i \in 1..Len(out[1].keywords) :
              LET k == out[1].keywords[i]
              IN /\ k # <<>>
                 /\ \A j \in 1..Len(k) : k[j] # ","
                 /\ k[1] \notin Whitespace /\ k[Len(k)] \notin Whitespace
        /\ Len(out[1].keywords) = NonBlankPieces(KeywordsRaw)
        /\ Squash(Concat(out[1].keywords)) = Squash(KeywordsRaw)

C6_Witness ==
    \/ /\ raw = <<"0", ",", " ", ",", "1">>
       /\ out = <<[exc |-> FALSE, keywords |-> << <<"0">>, <<"1">> >>]>>
    \/ /\ raw = <<"\"", "0", ",", "1", "\"">>
       /\ json_loads(raw).ok
       /\ out = <<[exc |-> FALSE, keywords |-> << <<"\"", "0">>, <<"1", "\"">> >>]>>

(***************************************************************************)
(* Properties of sentiment normalisation (specification SpecSentiment).    *)
(***************************************************************************)
\* word occurs in text, letters compared without regard to case
OccursIgnoringCase(text, word) ==
    \E i \in 0..(Len(text) - Len(word)) :
        \A k \in 1..Len(word) :
            \/ text[i + k] = word[k]
            \/ \E l \in 1..26 : LowerLetters[l] = word[k] /\ UpperLetters[l] = text[i + k]

\* C7: the sentiment is positive when the answer has "positive" in it (in any
\* letter case, also beside "negative"), negative when it has "negative" and
\* not "positive", neutral otherwise.
C7_SentimentRule ==
    out # <<>> =>
        /\ out[1] \in {"positive", "neutral", "negative"}
        /\ out[1] = "positive" <=> OccursIgnoringCase(raw, Positive)
        /\ out[1] = "negative" <=>
              (OccursIgnoringCase(raw, Negative) /\ ~OccursIgnoringCase(raw, Positive))

C7_Witness ==
    /\ out = <<"positive">>
    /\ OccursIgnoringCase(raw, Negative)
    /\ ~contains(raw, Positive)

====
